---- MODULE Spec2Model ----
(***************************************************************************)
(* Model of static/app.js: the result feed controller (pagination state,   *)
(* loadNext, resetAndLoad, doSearch, the scroll listener, the filter       *)
(* handlers), the suggestion engine (debounced input handler,              *)
(* showSuggestions with its two awaited fetches, levenshtein), the sidebar *)
(* with its auto-close timer, and the modal.                               *)
(*                                                                         *)
(* Strings that the code inspects (the search text, file names) are        *)
(* sequences of one-character strings; "" is <<>>.  An optional URL        *)
(* parameter is <<>> when absent and <<v>> when set.                       *)
(***************************************************************************)
EXTENDS Integers, Sequences, FiniteSets, TLC

VARIABLES
    \* feed controller (app.js 15-22 and the DOM nodes of 8-10)
    page, loading, finished,
    currentQuery, currentYear, currentType, currentSort,
    cards,            \* children of cardsEl: one entry per appended batch of cards
    noResults,        \* cardsEl holds the "No results found." paragraph
    endShown,         \* endEl.style.display = 'block'
    loadingShown,     \* loadingEl.style.display = 'block'
    inflight,         \* feed fetches awaited by a suspended loadNext()
    \* search box and suggestions
    searchValue,      \* searchInput.value
    debounceArmed,    \* the timer t of debounce(onSearchInput, 220) is pending
    suggestions,      \* the .suggestion-item children of suggestionsEl
    suggestionsShown, \* suggestionsEl.style.display = 'block'
    lookups,          \* suspended showSuggestions() calls
    \* sidebar
    sidebarOpen, overlayVisible, bodyLocked,
    sidebarAutoCloseTimer,  \* the variable holds a timer handle (is not null)
    timerPending,     \* the browser will still run the callback of setTimeout (184)
    \* modal
    modalHidden,      \* modal.classList has 'hidden'
    modalBody,        \* modalBody.innerHTML: "", "features" or "howto"
    \* strings a and b, and what levenshtein returned for them (<<>>: not called)
    levA, levB, levOut,
    \* history (not program state)
    lastFailed,       \* <<r>>: feed request r failed and no request was issued since
    emptyInput,       \* onSearchInput ran with an empty query and no request was issued since
    lastPool,         \* <<[q, pool]>>: the step just taken ranked pool for query q
    lastDone,         \* <<d>>: the step just taken resumed the lookup described by d
    lastEvent         \* the sidebar or modal event the step just taken handled, or ""

feedVars == <<page, loading, finished, currentQuery, currentYear, currentType,
              currentSort, cards, noResults, endShown, loadingShown, inflight>>
suggVars == <<searchValue, debounceArmed, suggestions, suggestionsShown, lookups>>
sideVars == <<sidebarOpen, overlayVisible, bodyLocked, sidebarAutoCloseTimer, timerPending>>
modalVars == <<modalHidden, modalBody>>
levVars == <<levA, levB, levOut>>
histVars == <<lastFailed, emptyInput>>
\* the program's state, without the history variables
progVars == <<feedVars, suggVars, sideVars, modalVars>>
vars == <<feedVars, suggVars, sideVars, modalVars, levVars, histVars, lastPool, lastDone,
          lastEvent>>

(***************************************************************************)
(* Program constants.                                                      *)
(***************************************************************************)
per_page == 20

(***************************************************************************)
(* Bounds of the model.                                                    *)
(***************************************************************************)
MaxPage == 3          \* a full page is answered only while page < MaxPage
MaxInflight == 2      \* feed fetches the model lets be pending at once

(***************************************************************************)
(* Inputs.                                                                 *)
(***************************************************************************)
\* number of items in a feed response: empty, one short of a page, a full page
ItemCounts == {0, per_page - 1, per_page}
YearValues == {"", "2023"}
TypeValues == {"", "pdf"}
SortValues == {"desc", "asc"}
\* texts the user leaves in the search box
SearchTexts == {<<>>, <<" ">>, <<"c", "a", "t">>}

(***************************************************************************)
(* Helpers.                                                                *)
(***************************************************************************)
IsSpace(c) == c = " "

RECURSIVE TrimStart(_)
TrimStart(s) ==
    IF s # <<>> /\ IsSpace(Head(s)) THEN TrimStart(Tail(s)) ELSE s

RECURSIVE TrimEnd(_)
TrimEnd(s) ==
    IF s # <<>> /\ IsSpace(s[Len(s)]) THEN TrimEnd(SubSeq(s, 1, Len(s) - 1)) ELSE s

\* String.prototype.trim
Trim(s) == TrimEnd(TrimStart(s))

\* if (v) p.set(name, v): a parameter is set only for a truthy (non-empty) value
OptParam(v, empty) == IF v # empty THEN <<v>> ELSE <<>>

_parseParams(pg, q, y, t, s) ==
    [page |-> pg, per_page |-> per_page,
     q |-> OptParam(q, <<>>), year |-> OptParam(y, ""),
     type |-> OptParam(t, ""), sort |-> OptParam(s, "")]

RemoveAt(s, i) == SubSeq(s, 1, i - 1) \o SubSeq(s, i + 1, Len(s))

(***************************************************************************)
(* Sidebar helpers.                                                        *)
(***************************************************************************)
\* the timer is left alone
cancelSidebarAutoClose_Noop(handle, pending) == [handle |-> handle, pending |-> pending]

\* cancelSidebarAutoClose (189-194), given the handle and the pending timer:
\* the handle and whether a timer is still pending afterwards
cancelSidebarAutoClose(handle, pending) ==
    IF handle THEN [handle |-> FALSE, pending |-> FALSE]
    ELSE [handle |-> handle, pending |-> pending]

\* closeSidebar (171-179) when a timer is pending or not
closeSidebarWhen(pending) ==
    /\ sidebarOpen' = FALSE
    /\ overlayVisible' = FALSE
    /\ bodyLocked' = FALSE
    /\ sidebarAutoCloseTimer' = cancelSidebarAutoClose(sidebarAutoCloseTimer, pending).handle
    /\ timerPending' = cancelSidebarAutoClose(sidebarAutoCloseTimer, pending).pending

closeSidebar == closeSidebarWhen(timerPending)

\* the list is hidden but keeps its items
hideSuggestions_KeepItems ==
    /\ suggestionsShown' = FALSE
    /\ suggestions' = suggestions

hideSuggestions ==
    /\ suggestionsShown' = FALSE
    /\ suggestions' = <<>>

(***************************************************************************)
(* Feed controller.                                                        *)
(***************************************************************************)
\* history: requests still pending when the feed is reset predate the reset
MarkStale(reqs) == [i \in 1..Len(reqs) |-> [reqs[i] EXCEPT !.stale = TRUE]]

\* loadNext guarded by the exhausted flag alone
LoadNextBlocked_NoLoading(fin) == fin

\* The guard of loadNext (app.js 316), on the finished flag its caller left.
LoadNextBlocked(fin) == loading \/ fin

\* loadNext() up to its await: called with the page, query, filters and finished
\* flag its caller has just assigned.  by names the caller, "reset" (doSearch,
\* resetAndLoad) or "scroll"; it is recorded in the history fields by and stale
\* of the requests and decides nothing.
loadNext(pg, q, y, t, s, fin, by) ==
    LET pending == IF by = "reset" THEN MarkStale(inflight) ELSE inflight IN
    IF LoadNextBlocked(fin)
    THEN /\ UNCHANGED <<loading, loadingShown>>
         /\ inflight' = pending
    ELSE /\ Len(inflight) < MaxInflight
         /\ loading' = TRUE
         /\ loadingShown' = TRUE
         /\ inflight' = Append(pending,
                [params |-> _parseParams(pg, q, y, t, s), stale |-> FALSE, by |-> by])

\* what no handler of the feed or of the search box touches: the modal, the
\* record of levenshtein's call, and the one-step history of lookups
Frame ==
    /\ UNCHANGED <<modalVars, levVars>>
    /\ lastEvent' = ""
    /\ lastDone' = <<>>

\* a fetch was issued by this step
Issued == Len(inflight') > Len(inflight)
NewRequest == inflight'[Len(inflight')]

\* history kept across a step that may have issued a request
\* (a later reset supersedes the one of an empty input)
HistAfterCall(becameEmpty, reset) ==
    /\ lastFailed' = IF Issued THEN <<>> ELSE lastFailed
    /\ emptyInput' = IF Issued THEN FALSE
                     ELSE IF becameEmpty THEN TRUE
                     ELSE IF reset THEN FALSE
                     ELSE emptyInput
    /\ lastPool' = <<>>
    /\ Frame

\* a reset that leaves the exhausted flag as it was
ResetTo_KeepFinished(q, y, t, s) ==
    /\ page' = 1
    /\ finished' = finished
    /\ cards' = <<>>
    /\ noResults' = FALSE
    /\ endShown' = FALSE
    /\ loadNext(1, q, y, t, s, finished, "reset")

\* the body shared by doSearch (283-287) and resetAndLoad (293-297)
ResetTo(q, y, t, s) ==
    /\ page' = 1
    /\ finished' = FALSE
    /\ cards' = <<>>
    /\ noResults' = FALSE
    /\ endShown' = FALSE
    /\ loadNext(1, q, y, t, s, FALSE, "reset")

resetAndLoad ==
    /\ ResetTo(currentQuery, currentYear, currentType, currentSort)
    /\ UNCHANGED <<currentQuery, currentYear, currentType, currentSort>>

\* searchBtn click, Enter in the search box
doSearch ==
    /\ currentQuery' = Trim(searchValue)
    /\ ResetTo(currentQuery', currentYear, currentType, currentSort)
    /\ UNCHANGED <<currentYear, currentType, currentSort>>
    /\ closeSidebar

DoSearch ==
    /\ doSearch
    /\ HistAfterCall(FALSE, TRUE)
    /\ UNCHANGED suggVars

YearChange(v) ==
    /\ v # currentYear
    /\ currentYear' = v
    /\ ResetTo(currentQuery, v, currentType, currentSort)
    /\ HistAfterCall(FALSE, TRUE)
    /\ UNCHANGED <<currentQuery, currentType, currentSort, suggVars, sideVars>>

TypeChange(v) ==
    /\ v # currentType
    /\ currentType' = v
    /\ ResetTo(currentQuery, currentYear, v, currentSort)
    /\ HistAfterCall(FALSE, TRUE)
    /\ UNCHANGED <<currentQuery, currentYear, currentSort, suggVars, sideVars>>

SortChange(v) ==
    /\ v # currentSort
    /\ currentSort' = v
    /\ ResetTo(currentQuery, currentYear, currentType, v)
    /\ HistAfterCall(FALSE, TRUE)
    /\ UNCHANGED <<currentQuery, currentYear, currentType, suggVars, sideVars>>

\* refreshBtn click
Refresh ==
    /\ resetAndLoad
    /\ closeSidebar
    /\ HistAfterCall(FALSE, TRUE)
    /\ UNCHANGED suggVars

\* the scroll listener, near the bottom of the document (within 420 px) or not
Scroll(near) ==
    /\ IF (loading \/ finished) \/ ~near
       THEN UNCHANGED <<loading, loadingShown, inflight>>
       ELSE loadNext(page, currentQuery, currentYear, currentType, currentSort,
                     finished, "scroll")
    /\ HistAfterCall(FALSE, FALSE)
    /\ UNCHANGED <<page, finished, cards, noResults, endShown, currentQuery,
                   currentYear, currentType, currentSort, suggVars, sideVars>>

\* a page one item short of full is taken for a full one
ShortPage_OffByOne(n) == n < per_page - 1

\* items.length < per_page (app.js 338)
ShortPage(n) == n < per_page

\* the page counter skips a page
NextPage_Skip(p) == p + 2

\* page += 1 (app.js 342)
NextPage(p) == p + 1

\* the return inside try leaves without the finally block
finallyLoading_SkippedByReturn(exit) == (exit = "return")

\* loading after the finally block (345-348), which runs however the try block
\* is left: by the return of 333, at its end, or through the catch
finallyLoading(exit) == FALSE

\* loadNext() resumed with an OK response of n items for pending request i
FeedResolve(i, n) ==
    /\ i \in 1..Len(inflight)
    /\ n >= per_page => page < MaxPage
    /\ IF page = 1 /\ n = 0
       THEN /\ noResults' = TRUE
            /\ cards' = <<>>
            /\ finished' = TRUE
            /\ endShown' = TRUE
            /\ page' = page
       ELSE /\ cards' = IF n > 0
                        THEN Append(cards, [n |-> n, req |-> inflight[i]])
                        ELSE cards
            /\ noResults' = noResults
            /\ IF ShortPage(n)
               THEN finished' = TRUE /\ endShown' = TRUE /\ page' = page
               ELSE page' = NextPage(page) /\ UNCHANGED <<finished, endShown>>
    /\ loading' = finallyLoading(IF page = 1 /\ n = 0 THEN "return" ELSE "end")
    /\ loadingShown' = FALSE
    /\ inflight' = RemoveAt(inflight, i)
    /\ UNCHANGED <<currentQuery, currentYear, currentType, currentSort,
                   suggVars, sideVars, histVars>>
    /\ lastPool' = <<>>
    /\ Frame

\* loadNext() resumed with a rejected fetch, a status that is not ok, or a body
\* that is not JSON: catch logs, finally clears the flag
FeedFail(i) ==
    /\ i \in 1..Len(inflight)
    /\ loading' = finallyLoading("catch")
    /\ loadingShown' = FALSE
    /\ inflight' = RemoveAt(inflight, i)
    /\ lastFailed' = <<inflight[i]>>
    /\ UNCHANGED <<page, finished, cards, noResults, endShown, currentQuery,
                   currentYear, currentType, currentSort, suggVars, sideVars,
                   emptyInput>>
    /\ lastPool' = <<>>
    /\ Frame

(***************************************************************************)
(* Suggestion engine.                                                      *)
(***************************************************************************)
Max(a, b) == IF a >= b THEN a ELSE b
Min(a, b) == IF a <= b THEN a ELSE b
Min3(a, b, c) == Min(a, Min(b, c))

\* letters keep their case
LowerChar_KeepCase(c) == c

\* String.prototype.toLowerCase on the letters of the model's alphabet
LowerChar(c) ==
    CASE c = "A" -> "a"
      [] c = "C" -> "c"
      [] c = "T" -> "t"
      [] OTHER -> c

toLowerCase(s) == [i \in 1..Len(s) |-> LowerChar(s[i])]

\* a deletion costs two
RECURSIVE LevRow_CostlyDelete(_, _, _, _)
LevRow_CostlyDelete(prev, ai, b, row) ==
    LET j == Len(row) IN
    IF j > Len(b) THEN row
    ELSE LET cost == IF ai = b[j] THEN 0 ELSE 1 IN
         LevRow_CostlyDelete(prev, ai, b,
                Append(row, Min3(prev[j + 1] + 2, row[j] + 1, prev[j] + cost)))

\* row i of the matrix of levenshtein from row i-1 (app.js 70-78); rows are
\* indexed from 1, so row[j + 1] is matrix[i][j]
RECURSIVE LevRow(_, _, _, _)
LevRow(prev, ai, b, row) ==
    LET j == Len(row) IN
    IF j > Len(b) THEN row
    ELSE LET cost == IF ai = b[j] THEN 0 ELSE 1 IN
         LevRow(prev, ai, b,
                Append(row, Min3(prev[j + 1] + 1, row[j] + 1, prev[j] + cost)))

RECURSIVE LevRows(_, _, _, _)
LevRows(a, b, i, prev) ==
    IF i > Len(a) THEN prev
    ELSE LevRows(a, b, i + 1, LevRow(prev, a[i], b, <<i>>))

levenshtein(a, b) ==
    IF a = <<>> THEN Len(b)
    ELSE IF b = <<>> THEN Len(a)
    ELSE LET la == toLowerCase(a)
             lb == toLowerCase(b)
         IN LevRows(la, lb, 1, [j \in 1..(Len(lb) + 1) |-> j - 1])[Len(lb) + 1]

\* queries typed: the empty text, "catt" (threshold 3), "catcatt" (threshold 4)
SuggestTexts == {<<>>, <<"c", "a", "t", "t">>, <<"c", "a", "t", "c", "a", "t", "t">>}

\* file names of the catalogue; <<>> is a record without file_name
Names == << <<"c", "a", "t">>, <<"C", "a", "t", "s">>, <<"c">>, <<>> >>

NameAt(k) == Names[(k % Len(Names)) + 1]

\* a response of n items whose names walk through Names from start by step
ItemsOf(n, start, step) ==
    [i \in 1..n |-> [id |-> i, file_name |-> NameAt(start + (i - 1) * step)]]

\* items shown per lookup, direct matches that make the fuzzy pool unnecessary,
\* candidates kept after the sort (app.js 243, 230, 237)
RenderLimit == 8
DirectEnough == 5
ScoredLimit == 12

\* Array.prototype.slice(0, n)
Slice(s, n) == SubSeq(s, 1, Min(n, Len(s)))

\* Array.prototype.sort((a,b) => a.d - b.d): ascending by d, and stable, so it
\* is the entries of distance 0 in their order, then those of distance 1, ...
RECURSIVE Buckets(_, _, _)
Buckets(s, d, maxd) ==
    IF d > maxd THEN <<>>
    ELSE SelectSeq(s, LAMBDA x : x.d = d) \o Buckets(s, d + 1, maxd)

RECURSIVE MaxD(_)
MaxD(s) == IF s = <<>> THEN 0 ELSE Max(s[1].d, MaxD(Tail(s)))

SortByD(s) == Buckets(s, 0, MaxD(s))

\* Math.max(3, Math.floor(q.length * 0.6))
maxAccept(q) == Max(3, (Len(q) * 6) \div 10)

\* a candidate at exactly the threshold is dropped
Accepts_Strict(q, sc) == sc.d < maxAccept(q)

\* s.d <= maxAccept (app.js 239)
Accepts(q, sc) == sc.d <= maxAccept(q)

\* app.js 235-239: the items a pool contributes for query q
FuzzyItems(q, pool) ==
    LET scored == Slice(SortByD([i \in 1..Len(pool) |->
                        [it |-> pool[i], d |-> levenshtein(q, pool[i].file_name)]]),
                        ScoredLimit)
        kept == SelectSeq(scored, LAMBDA sc : Accepts(q, sc))
    IN [i \in 1..Len(kept) |-> kept[i].it]

\* items in a pool response of the model
MaxPool == 13

\* the pool responses of the model
Pools == {ItemsOf(n, start, 1) : n \in 0..MaxPool, start \in 0..(Len(Names) - 1)}

\* FuzzyItems over the queries and pools of the model, computed once (@@ makes
\* the function explicit)
FuzzyTable == [p \in SuggestTexts \X Pools |-> FuzzyItems(p[1], p[2])] @@ <<>>

Ranked(q, pool) ==
    IF <<q, pool>> \in DOMAIN FuzzyTable THEN FuzzyTable[<<q, pool>>] ELSE FuzzyItems(q, pool)

NoName == <<"(", "n", "o", " ", "n", "a", "m", "e", ")">>

\* the suggestion-item elements renderSuggestions builds (app.js 252-255)
SuggestionItems(items) ==
    [i \in 1..Len(items) |->
        [id |-> items[i].id,
         title |-> IF items[i].file_name # <<>> THEN items[i].file_name ELSE NoName]]

renderSuggestions(items) ==
    IF Len(items) = 0
    THEN hideSuggestions
    ELSE /\ suggestions' = SuggestionItems(items)
         /\ suggestionsShown' = TRUE

\* History of the pending lookups.  newer: a later lookup has started since
\* this one did.  dismissed: the list has been hidden by an emptied query or a
\* selected suggestion since this one started, and no lookup has started since.
MarkNewer(ls) == [k \in 1..Len(ls) |-> [ls[k] EXCEPT !.newer = TRUE, !.dismissed = FALSE]]
MarkDismissed(ls) == [k \in 1..Len(ls) |-> [ls[k] EXCEPT !.dismissed = TRUE]]

\* History of one step: showSuggestions resumed for lookup i and rendered what
\* it had.  direct: the direct matches it held (none before they are
\* answered).  last: no lookup started after it is still pending, so every
\* newer lookup has been answered before it.
Done(i, outcome) ==
    <<[outcome |-> outcome, q |-> lookups[i].q, direct |-> lookups[i].items,
       newer |-> lookups[i].newer, last |-> (i = Len(lookups)),
       dismissed |-> lookups[i].dismissed]>>

\* History of one step: showSuggestions resumed for lookup i and failed
Failed(i, outcome) == <<[outcome |-> outcome, direct |-> lookups[i].items]>>

\* an input event in the search box: the text becomes v and the debounce timer
\* is (re)started (app.js 29-32, 86)
InputEvent(v) ==
    /\ v # searchValue
    /\ searchValue' = v
    /\ debounceArmed' = TRUE
    /\ UNCHANGED <<suggestions, suggestionsShown, lookups, feedVars, sideVars, histVars>>
    /\ lastPool' = <<>>
    /\ Frame

\* the debounce timer fires: onSearchInput, and showSuggestions up to its first
\* await.  limit bounds the lookups pending at once.
OnSearchInput(limit) ==
    /\ debounceArmed
    /\ debounceArmed' = FALSE
    /\ LET q == Trim(searchValue) IN
       IF q = <<>>
       THEN /\ hideSuggestions
            /\ currentQuery' = <<>>
            /\ ResetTo(<<>>, currentYear, currentType, currentSort)
            /\ HistAfterCall(TRUE, TRUE)
            /\ lookups' = MarkDismissed(lookups)
            /\ UNCHANGED <<currentYear, currentType, currentSort>>
       ELSE /\ Len(lookups) < limit
            /\ lookups' = Append(MarkNewer(lookups),
                                 [q |-> q, stage |-> "direct", items |-> <<>>,
                                  newer |-> FALSE, dismissed |-> FALSE])
            /\ UNCHANGED <<suggestions, suggestionsShown, feedVars, histVars>>
            /\ lastPool' = <<>>
            /\ Frame
    /\ UNCHANGED <<searchValue, sideVars>>

\* showSuggestions resumed: the first fetch rejected, or its status was not ok
\* and line 226 threw; either way the catch of line 244 runs
SuggestDirectFail(i) ==
    /\ i \in 1..Len(lookups)
    /\ lookups[i].stage = "direct"
    /\ hideSuggestions
    /\ lookups' = RemoveAt(lookups, i)
    /\ UNCHANGED <<searchValue, debounceArmed, feedVars, sideVars, histVars>>
    /\ lastPool' = <<>>
    /\ UNCHANGED <<modalVars, levVars>>
    /\ lastEvent' = ""
    /\ \E kind \in {"directRejected", "directStatus"} : lastDone' = Failed(i, kind)

\* the pool is fetched even for DirectEnough direct matches
TooFewDirect_OffByOne(items) == Len(items) <= DirectEnough

\* items.length < 5 (app.js 230)
TooFewDirect(items) == Len(items) < DirectEnough

\* showSuggestions with a guard it does not have: the answer to a lookup is
\* dropped when a later lookup has started
SuggestDirectOk_Guarded(i, items) ==
    /\ i \in 1..Len(lookups)
    /\ lookups[i].stage = "direct"
    /\ IF lookups[i].newer
       THEN /\ lookups' = RemoveAt(lookups, i)
            /\ UNCHANGED <<suggestions, suggestionsShown>>
       ELSE IF TooFewDirect(items)
       THEN /\ lookups' = [lookups EXCEPT ![i] = [@ EXCEPT !.stage = "pool", !.items = items]]
            /\ UNCHANGED <<suggestions, suggestionsShown>>
       ELSE /\ renderSuggestions(Slice(items, RenderLimit))
            /\ lookups' = RemoveAt(lookups, i)
    /\ UNCHANGED <<searchValue, debounceArmed, feedVars, sideVars, histVars>>
    /\ lastPool' = <<>>
    /\ UNCHANGED <<modalVars, levVars>>
    /\ lastEvent' = ""
    /\ lastDone' = IF TooFewDirect(items) THEN <<>> ELSE Done(i, "directOk")

\* showSuggestions resumed with the direct matches: too few of them start the
\* pool fetch, otherwise they are rendered
SuggestDirectOk(i, items) ==
    /\ i \in 1..Len(lookups)
    /\ lookups[i].stage = "direct"
    /\ IF TooFewDirect(items)
       THEN /\ lookups' = [lookups EXCEPT ![i] = [@ EXCEPT !.stage = "pool", !.items = items]]
            /\ UNCHANGED <<suggestions, suggestionsShown>>
       ELSE /\ renderSuggestions(Slice(items, RenderLimit))
            /\ lookups' = RemoveAt(lookups, i)
    /\ UNCHANGED <<searchValue, debounceArmed, feedVars, sideVars, histVars>>
    /\ lastPool' = <<>>
    /\ UNCHANGED <<modalVars, levVars>>
    /\ lastEvent' = ""
    /\ lastDone' = IF TooFewDirect(items) THEN <<>> ELSE Done(i, "directOk")

\* showSuggestions resumed: the pool fetch rejected (or its body was not JSON)
SuggestPoolReject(i) ==
    /\ i \in 1..Len(lookups)
    /\ lookups[i].stage = "pool"
    /\ hideSuggestions
    /\ lookups' = RemoveAt(lookups, i)
    /\ UNCHANGED <<searchValue, debounceArmed, feedVars, sideVars, histVars>>
    /\ lastPool' = <<>>
    /\ UNCHANGED <<modalVars, levVars>>
    /\ lastEvent' = ""
    /\ lastDone' = Failed(i, "poolRejected")

\* showSuggestions resumed: the pool response's status was not ok, so the direct
\* matches are rendered
SuggestPoolNotOk(i) ==
    /\ i \in 1..Len(lookups)
    /\ lookups[i].stage = "pool"
    /\ renderSuggestions(Slice(lookups[i].items, RenderLimit))
    /\ lookups' = RemoveAt(lookups, i)
    /\ UNCHANGED <<searchValue, debounceArmed, feedVars, sideVars, histVars>>
    /\ lastPool' = <<>>
    /\ UNCHANGED <<modalVars, levVars>>
    /\ lastEvent' = ""
    /\ lastDone' = Done(i, "poolStatus")

\* showSuggestions resumed with the pool
SuggestPoolOk(i, pool) ==
    /\ i \in 1..Len(lookups)
    /\ lookups[i].stage = "pool"
    /\ renderSuggestions(Slice(Ranked(lookups[i].q, pool), RenderLimit))
    /\ lookups' = RemoveAt(lookups, i)
    /\ lastPool' = <<[q |-> lookups[i].q, pool |-> pool]>>
    /\ lastDone' = Done(i, "poolOk")
    /\ UNCHANGED <<modalVars, levVars>>
    /\ lastEvent' = ""
    /\ UNCHANGED <<searchValue, debounceArmed, feedVars, sideVars, lastFailed, emptyInput>>

\* click on the k-th suggestion (app.js 259-266)
SuggestionClick(k) ==
    /\ suggestionsShown
    /\ k \in 1..Len(suggestions)
    /\ searchValue' = suggestions[k].title
    /\ hideSuggestions
    /\ currentQuery' = Trim(searchValue')
    /\ ResetTo(currentQuery', currentYear, currentType, currentSort)
    /\ closeSidebar
    /\ HistAfterCall(FALSE, TRUE)
    /\ lookups' = MarkDismissed(lookups)
    /\ UNCHANGED <<currentYear, currentType, currentSort, debounceArmed>>

(***************************************************************************)
(* Sidebar and modal.  An event is modelled with every listener it         *)
(* reaches: a click that is neither inside the sidebar nor on the          *)
(* hamburger also runs the document listener of 145-152 (closeSidebar),    *)
(* and one outside the search area the listener of 275-278                 *)
(* (hideSuggestions).                                                      *)
(***************************************************************************)
\* the overlay is not shown
openSidebar_NoOverlay ==
    /\ sidebarOpen' = TRUE
    /\ overlayVisible' = overlayVisible
    /\ bodyLocked' = TRUE
    /\ sidebarAutoCloseTimer' = TRUE
    /\ timerPending' = TRUE

\* openSidebar with startSidebarAutoClose (162-170, 181-188): a pending timer
\* is cancelled and a new one is set
openSidebar ==
    /\ sidebarOpen' = TRUE
    /\ overlayVisible' = TRUE
    /\ bodyLocked' = TRUE
    /\ sidebarAutoCloseTimer' = TRUE
    /\ timerPending' = TRUE

openModal(html) ==
    /\ modalHidden' = FALSE
    /\ modalBody' = html

closeModal ==
    /\ modalHidden' = TRUE
    /\ modalBody' = ""

\* what a sidebar or modal event named e leaves alone
UiFrame(e) ==
    /\ lastEvent' = e
    /\ lastPool' = <<>>
    /\ lastDone' = <<>>
    /\ UNCHANGED <<feedVars, searchValue, debounceArmed, lookups, levVars, histVars>>

\* click on the hamburger (125-129); the click does not reach the document
HamburgerClick ==
    /\ IF sidebarOpen THEN closeSidebar ELSE openSidebar
    /\ UiFrame("hamburger")
    /\ UNCHANGED <<modalVars, suggestions, suggestionsShown>>

\* click on the overlay (109), which then reaches the document
OverlayClick ==
    /\ closeSidebar
    /\ hideSuggestions
    /\ UiFrame("overlay")
    /\ UNCHANGED modalVars

\* click on the close button of the sidebar (111); the sidebar's own listener
\* (115-119) then finds no timer to cancel and stops the click
SidebarCloseClick ==
    /\ closeSidebar
    /\ UiFrame("sidebarClose")
    /\ UNCHANGED <<modalVars, suggestions, suggestionsShown>>

\* click inside the sidebar, on none of its buttons (115-119)
SidebarClick ==
    /\ sidebarAutoCloseTimer' = cancelSidebarAutoClose(sidebarAutoCloseTimer, timerPending).handle
    /\ timerPending' = cancelSidebarAutoClose(sidebarAutoCloseTimer, timerPending).pending
    /\ UiFrame("sidebarClick")
    /\ UNCHANGED <<sidebarOpen, overlayVisible, bodyLocked, modalVars, suggestions,
                   suggestionsShown>>

\* pointerdown inside the sidebar (121)
SidebarPointerDown ==
    /\ sidebarAutoCloseTimer' = cancelSidebarAutoClose(sidebarAutoCloseTimer, timerPending).handle
    /\ timerPending' = cancelSidebarAutoClose(sidebarAutoCloseTimer, timerPending).pending
    /\ UiFrame("pointerdown")
    /\ UNCHANGED <<sidebarOpen, overlayVisible, bodyLocked, modalVars, suggestions,
                   suggestionsShown>>

\* click on featuresBtn or howtoBtn (98-99)
ModalButtonClick(html) ==
    /\ openModal(html)
    /\ closeSidebar
    /\ UiFrame("modalButton")
    /\ UNCHANGED <<suggestions, suggestionsShown>>

\* click on the close button of the modal (200), which then reaches the document
CloseModalClick ==
    /\ ~modalHidden
    /\ closeModal
    /\ closeSidebar
    /\ hideSuggestions
    /\ UiFrame("closeModal")

\* click on the backdrop of the modal (201), which then reaches the document
ModalBackdropClick ==
    /\ ~modalHidden
    /\ closeModal
    /\ closeSidebar
    /\ hideSuggestions
    /\ UiFrame("backdrop")

\* one press closes the modal and the sidebar
Escape_Both ==
    /\ closeModal
    /\ closeSidebar
    /\ UiFrame("escape")
    /\ UNCHANGED <<suggestions, suggestionsShown>>

\* keydown of Escape (132-142)
Escape ==
    /\ IF ~modalHidden
       THEN closeModal /\ UNCHANGED sideVars
       ELSE closeSidebar /\ UNCHANGED modalVars
    /\ UiFrame("escape")
    /\ UNCHANGED <<suggestions, suggestionsShown>>

\* click elsewhere in the document, inside the search area or not (145-152,
\* 275-278)
DocumentClick(inSearchArea) ==
    /\ closeSidebar
    /\ IF inSearchArea THEN UNCHANGED <<suggestions, suggestionsShown>> ELSE hideSuggestions
    /\ UiFrame("documentClick")
    /\ UNCHANGED modalVars

\* SIDEBAR_AUTO_CLOSE_MS have passed since setTimeout: the callback of 184-187
\* runs, with no timer pending any more
TimerFire ==
    /\ timerPending
    /\ IF sidebarOpen
       THEN closeSidebarWhen(FALSE)
       ELSE /\ timerPending' = FALSE
            /\ UNCHANGED <<sidebarOpen, overlayVisible, bodyLocked, sidebarAutoCloseTimer>>
    /\ UiFrame("timer")
    /\ UNCHANGED <<modalVars, suggestions, suggestionsShown>>

(***************************************************************************)
(* The page after the script has run: the initial resetAndLoad() (app.js   *)
(* 390) has issued the request for page 1.                                 *)
(***************************************************************************)
PageLoaded ==
    /\ page = 1
    /\ loading = TRUE
    /\ finished = FALSE
    /\ currentQuery = <<>>
    /\ currentYear = ""
    /\ currentType = ""
    /\ currentSort = "desc"
    /\ cards = <<>>
    /\ noResults = FALSE
    /\ endShown = FALSE
    /\ loadingShown = TRUE
    /\ inflight = <<[params |-> _parseParams(1, <<>>, "", "", "desc"), stale |-> FALSE,
                     by |-> "reset"]>>
    /\ searchValue = <<>>
    /\ debounceArmed = FALSE
    /\ suggestions = <<>>
    /\ suggestionsShown = FALSE
    /\ lookups = <<>>
    /\ sidebarOpen = FALSE
    /\ overlayVisible = FALSE
    /\ bodyLocked = FALSE
    /\ sidebarAutoCloseTimer = FALSE
    /\ timerPending = FALSE
    /\ modalHidden = TRUE
    /\ modalBody = ""
    /\ lastFailed = <<>>
    /\ emptyInput = FALSE
    /\ lastPool = <<>>
    /\ lastDone = <<>>
    /\ lastEvent = ""

Init ==
    /\ PageLoaded
    /\ levA = <<>>
    /\ levB = <<>>
    /\ levOut = <<>>

(***************************************************************************)
(* Spec: the feed under searches, filter changes, scrolling, typing and    *)
(* the answers of /api/search to the feed; suggestion lookups stay        *)
(* pending.                                                                *)
(***************************************************************************)
MaxFeedLookups == 1

Next ==
    \/ Refresh
    \/ \E v \in YearValues : YearChange(v)
    \/ \E v \in TypeValues : TypeChange(v)
    \/ \E v \in SortValues : SortChange(v)
    \/ DoSearch
    \/ \E near \in BOOLEAN : Scroll(near)
    \/ \E i \in 1..MaxInflight, n \in ItemCounts : FeedResolve(i, n)
    \/ \E i \in 1..MaxInflight : FeedFail(i)
    \/ \E v \in SearchTexts : InputEvent(v)
    \/ OnSearchInput(MaxFeedLookups)

Spec == Init /\ [][Next]_vars

(***************************************************************************)
(* SpecSuggest: the suggestion engine under typing and the answers of      *)
(* /api/search to the two fetches of a lookup.  The feed's own request     *)
(* stays pending.                                                          *)
(***************************************************************************)
MaxSuggestLookups == 1   \* lookups pending at once

\* direct matches: none, just too few, just enough, one more, more than are rendered
Directs ==
    {ItemsOf(n, 0, 1) : n \in {0, DirectEnough - 1, DirectEnough, DirectEnough + 1, RenderLimit + 1}}

NextSuggest ==
    \/ \E v \in SuggestTexts : InputEvent(v)
    \/ OnSearchInput(MaxSuggestLookups)
    \/ \E i \in 1..MaxSuggestLookups : SuggestDirectFail(i)
    \/ \E i \in 1..MaxSuggestLookups, items \in Directs : SuggestDirectOk(i, items)
    \/ \E i \in 1..MaxSuggestLookups : SuggestPoolReject(i)
    \/ \E i \in 1..MaxSuggestLookups : SuggestPoolNotOk(i)
    \/ \E i \in 1..MaxSuggestLookups, pool \in Pools : SuggestPoolOk(i, pool)

SpecSuggest == Init /\ [][NextSuggest]_vars

(***************************************************************************)
(* Steps named by the claims.                                              *)
(***************************************************************************)
EmptyInputStep == OnSearchInput(MaxFeedLookups) /\ Trim(searchValue) = <<>>

\* a step that calls resetAndLoad()
ResetAndLoadStep ==
    \/ Refresh
    \/ \E v \in YearValues : YearChange(v)
    \/ \E v \in TypeValues : TypeChange(v)
    \/ \E v \in SortValues : SortChange(v)
    \/ EmptyInputStep

\* a step that resets the feed state
ResetStep ==
    \/ ResetAndLoadStep
    \/ DoSearch

ScrollStep == \E near \in BOOLEAN : Scroll(near)

(***************************************************************************)
(* SpecLookups: several suggestion lookups pending at once.  /api/search   *)
(* answers a lookup with files named as its query is, or fails;            *)
(* the user types, empties the box, picks a suggestion or searches in      *)
(* between.  The feed's own request stays pending.                         *)
(***************************************************************************)
MaxPendingLookups == 2

LookupTexts == { <<>>, <<"c","a">>, <<"c","a","t">> }

\* a response of n files named q
MatchesOf(q, n) == [k \in 1..n |-> [id |-> k, file_name |-> q]]

\* sizes of a response that is rendered without the pool
EnoughCounts == {DirectEnough, DirectEnough + 1}

NextLookups ==
    \/ \E v \in LookupTexts : InputEvent(v)
    \/ OnSearchInput(MaxPendingLookups)
    \/ \E i \in 1..MaxPendingLookups : SuggestDirectFail(i)
    \/ \E i \in 1..MaxPendingLookups, n \in EnoughCounts :
          SuggestDirectOk(i, MatchesOf(lookups[i].q, n))
    \/ \E k \in 1..RenderLimit : SuggestionClick(k)
    \/ DoSearch

SpecLookups == Init /\ [][NextLookups]_vars

(***************************************************************************)
(* SpecFeedLive: the feed under refreshes, searches, year changes and      *)
(* scrolling, where every pending fetch of loadNext is settled in the end  *)
(* (answered, or failed).                                                  *)
(***************************************************************************)
Settle ==
    \/ \E i \in 1..MaxInflight, n \in ItemCounts : FeedResolve(i, n)
    \/ \E i \in 1..MaxInflight : FeedFail(i)

NextFeedLive ==
    \/ Refresh
    \/ \E v \in YearValues : YearChange(v)
    \/ DoSearch
    \/ \E near \in BOOLEAN : Scroll(near)
    \/ \E i \in 1..MaxInflight, n \in ItemCounts : FeedResolve(i, n)
    \/ \E i \in 1..MaxInflight : FeedFail(i)

SpecFeedLive == Init /\ [][NextFeedLive]_vars /\ WF_vars(Settle)

(***************************************************************************)
(* SpecSidebar: the sidebar, its timer and the modal under every event     *)
(* that reaches them, with the feed loading, scrolling and being           *)
(* refreshed behind them.                                                  *)
(***************************************************************************)
ModalPages == {"features", "howto"}

NextSidebar ==
    \/ HamburgerClick
    \/ OverlayClick
    \/ SidebarCloseClick
    \/ SidebarClick
    \/ SidebarPointerDown
    \/ \E html \in ModalPages : ModalButtonClick(html)
    \/ CloseModalClick
    \/ ModalBackdropClick
    \/ Escape
    \/ \E inSearchArea \in BOOLEAN : DocumentClick(inSearchArea)
    \/ TimerFire
    \/ Refresh
    \/ \E near \in BOOLEAN : Scroll(near)
    \/ \E i \in 1..MaxInflight, n \in ItemCounts : FeedResolve(i, n)
    \/ \E i \in 1..MaxInflight : FeedFail(i)

SpecSidebar == Init /\ [][NextSidebar]_vars

(***************************************************************************)
(* SpecLev: levenshtein as a function.  The two strings are any strings of *)
(* at most MaxLevLen letters, of either case; the calls the suggestion     *)
(* ranking could make on them are made.                                    *)
(***************************************************************************)
MaxLevLen == 3

LevAlphabet == {"a", "A", "t"}

LevStrings == UNION {[1..n -> LevAlphabet] : n \in 0..MaxLevLen}

Levenshtein ==
    /\ levOut = <<>>
    /\ levOut' = <<[ab |-> levenshtein(levA, levB),
                    ba |-> levenshtein(levB, levA),
                    aa |-> levenshtein(levA, levA),
                    eb |-> levenshtein(<<>>, levB)]>>
    /\ UNCHANGED <<levA, levB, feedVars, suggVars, sideVars, modalVars, histVars,
                   lastPool, lastDone, lastEvent>>

InitLev ==
    /\ PageLoaded
    /\ levA \in LevStrings
    /\ levB \in LevStrings
    /\ levOut = <<>>

NextLev == Levenshtein

SpecLev == InitLev /\ [][NextLev]_vars

(***************************************************************************)
(* C1: at most one feed request is pending at any time, loading is set     *)
(* exactly while one is, and a call of loadNext() made while loading or    *)
(* finished holds issues no request and changes nothing: no step taken     *)
(* while loading issues a request, and a scroll event while loading or     *)
(* finished leaves every variable as it was.                               *)
(***************************************************************************)
C1_OneRequestInFlight ==
    /\ [](Len(inflight) <= 1 /\ (loading <=> Len(inflight) = 1))
    /\ [][/\ loading => ~Issued
          /\ (ScrollStep /\ (loading \/ finished)) => UNCHANGED progVars]_vars

\* resetAndLoad/doSearch called loadNext() while a request was pending
C1_Witness ==
    /\ loading
    /\ Len(inflight) = 1
    /\ inflight[1].stale

(***************************************************************************)
(* C2: a response with fewer than per_page items sets finished, and while  *)
(* finished holds no request is issued and finished stays set, except by a *)
(* step that resets the feed (resetAndLoad, doSearch).                     *)
(***************************************************************************)
C2_ShortPageExhausts ==
    [][/\ \A i \in 1..Len(inflight), n \in ItemCounts :
             (n < per_page /\ FeedResolve(i, n)) => finished'
       /\ (finished /\ ~ResetStep) => (finished' /\ ~Issued)
       /\ (finished /\ Issued) => (ResetStep /\ NewRequest.by = "reset")]_vars

\* page 1 was full, page 2 was short: the feed is exhausted on page 2
C2_Witness ==
    /\ finished
    /\ ~loading
    /\ page = 2
    /\ Len(cards) = 2
    /\ cards[1].n = per_page
    /\ cards[2].n = per_page - 1
    /\ cards[2].req.params.page = 2

(***************************************************************************)
(* C3: page grows only in a step that resumes loadNext with a response of  *)
(* at least per_page items, and then by exactly 1; a short or empty        *)
(* response and a failed request never increase it.                        *)
(***************************************************************************)
C3_PageAdvance ==
    [][/\ page' > page =>
             /\ page' = page + 1
             /\ \E i \in 1..Len(inflight), n \in ItemCounts :
                    n >= per_page /\ FeedResolve(i, n)
       /\ \A i \in 1..Len(inflight) : FeedFail(i) => page' = page
       /\ \A i \in 1..Len(inflight), n \in ItemCounts :
             (n < per_page /\ FeedResolve(i, n)) => page' = page]_vars

\* two full pages have been appended and page has advanced twice
C3_Witness ==
    /\ page = 3
    /\ Len(cards) = 2
    /\ cards[1].n = per_page
    /\ cards[2].n = per_page

(***************************************************************************)
(* C4: every call of resetAndLoad(), in any state, issues a request for    *)
(* page 1 carrying the query, year, type and sort current at the call.     *)
(***************************************************************************)
C4_ResetAlwaysLoads ==
    [][ResetAndLoadStep =>
          /\ Issued
          /\ NewRequest.params =
                _parseParams(1, currentQuery', currentYear', currentType', currentSort')]_vars

(***************************************************************************)
(* C5: right after resetAndLoad() returns, page = 1, finished is false and *)
(* cardsEl is empty, whatever page, finished and loading were before.      *)
(***************************************************************************)
C5_ResetRestores ==
    [][ResetAndLoadStep =>
          /\ page' = 1
          /\ ~finished'
          /\ cards' = <<>>
          /\ ~noResults']_vars

\* resetAndLoad() ran while the request for page 2 was pending
C5_Witness ==
    /\ Len(inflight) = 1
    /\ inflight[1].stale
    /\ inflight[1].params.page = 2
    /\ page = 1
    /\ ~finished
    /\ cards = <<>>

(***************************************************************************)
(* C6: a failed feed request clears loading, leaves page, finished and the *)
(* rendered cards unchanged and issues no request; the next loadNext()     *)
(* from a scroll requests the page number of the failed request.           *)
(***************************************************************************)
C6_FailureRetriesSamePage ==
    [][/\ \A i \in 1..Len(inflight) : FeedFail(i) =>
             /\ ~loading'
             /\ page' = page /\ finished' = finished
             /\ cards' = cards /\ noResults' = noResults
             /\ ~Issued
       /\ (lastFailed # <<>> /\ Issued /\ NewRequest.by = "scroll") =>
             NewRequest.params.page = lastFailed[1].params.page]_vars

(***************************************************************************)
(* C7: a response renders the "No results found." placeholder and marks    *)
(* the feed exhausted exactly when it has zero items and answers a request *)
(* that was issued for page 1.                                             *)
(***************************************************************************)
C7_PlaceholderOnlyForPageOne ==
    [][\A i \in 1..Len(inflight), n \in ItemCounts :
          FeedResolve(i, n) =>
             (noResults' <=> (n = 0 /\ inflight[i].params.page = 1))]_vars

(***************************************************************************)
(* C8: when onSearchInput runs with an empty trimmed query the suggestion  *)
(* list is hidden, and the next feed request issued is for page 1 with no  *)
(* q, year or type parameter.                                              *)
(***************************************************************************)
C8_EmptyQueryUnfiltered ==
    [][/\ EmptyInputStep => (~suggestionsShown' /\ suggestions' = <<>>)
       /\ ((EmptyInputStep \/ emptyInput) /\ Issued) =>
             /\ NewRequest.params.page = 1
             /\ NewRequest.params.q = <<>>
             /\ NewRequest.params.year = <<>>
             /\ NewRequest.params.type = <<>>]_vars

(***************************************************************************)
(* The fuzzy ranking, stated from the distances alone.                     *)
(***************************************************************************)
\* levenshtein over the queries and file names of the model, computed once
DistTable ==
    [p \in SuggestTexts \X {Names[k] : k \in 1..Len(Names)} |-> levenshtein(p[1], p[2])] @@ <<>>

PoolDist(q, pool, k) == DistTable[<<q, pool[k].file_name>>]

Threshold(q) == IF (Len(q) * 6) \div 10 > 3 THEN (Len(q) * 6) \div 10 ELSE 3

\* position of candidate k when the pool is ordered by distance, ties in pool order
Rank(q, pool, k) ==
    Cardinality({j \in 1..Len(pool) :
        \/ PoolDist(q, pool, j) < PoolDist(q, pool, k)
        \/ (PoolDist(q, pool, j) = PoolDist(q, pool, k) /\ j <= k)})

Rendered(id) == \E r \in 1..Len(suggestions) : suggestions[r].id = id

(***************************************************************************)
(* C9 as stated: after the fuzzy fallback has ranked a pool for a query of *)
(* length L, a pool candidate is among the suggestions if and only if its  *)
(* edit distance to the query is at most max(3, floor(L * 0.6)).           *)
(***************************************************************************)
C9_AcceptedIffWithinThreshold ==
    lastPool # <<>> =>
        LET q == lastPool[1].q
            pool == lastPool[1].pool
        IN \A k \in 1..Len(pool) :
              Rendered(pool[k].id) <=> PoolDist(q, pool, k) <= Threshold(q)

(***************************************************************************)
(* C9 as amended: after the fuzzy fallback has ranked a pool, a pool       *)
(* candidate is among the suggestions if and only if its edit distance is  *)
(* at most max(3, floor(L * 0.6)) and it is one of the 8 closest           *)
(* candidates (ties in pool order); the suggestions are those candidates   *)
(* in that order, and the list is shown iff there is one.                  *)
(***************************************************************************)
C9_AcceptedIffWithinThresholdAndClosest ==
    lastPool # <<>> =>
        LET q == lastPool[1].q
            pool == lastPool[1].pool
            Kept(k) == /\ PoolDist(q, pool, k) <= Threshold(q)
                       /\ Rank(q, pool, k) <= 8
        IN /\ \A k \in 1..Len(pool) : Rendered(pool[k].id) <=> Kept(k)
           /\ \A k \in 1..Len(pool) :
                 Kept(k) => /\ Rank(q, pool, k) <= Len(suggestions)
                            /\ suggestions[Rank(q, pool, k)].id = pool[k].id
           /\ Len(suggestions) = Cardinality({k \in 1..Len(pool) : Kept(k)})
           /\ suggestionsShown <=> (\E k \in 1..Len(pool) : Kept(k))

\* "catt" was ranked against a full pool: "cat" (distance 1) leads the 8
\* suggestions, and a candidate within the threshold is left out
C9_Witness ==
    /\ lastPool # <<>>
    /\ lastPool[1].q = <<"c", "a", "t", "t">>
    /\ Len(lastPool[1].pool) = MaxPool
    /\ Len(suggestions) = 8
    /\ suggestions[1].title = <<"c", "a", "t">>
    /\ \E k \in 1..MaxPool :
          /\ PoolDist(lastPool[1].q, lastPool[1].pool, k) <= 3
          /\ ~Rendered(lastPool[1].pool[k].id)
    /\ \E k \in 1..MaxPool : PoolDist(lastPool[1].q, lastPool[1].pool, k) > 3

(***************************************************************************)
(* C10: when the direct-match response has 5 or more items no pool request *)
(* is made and the suggestions are those items in order, cut to 8; a pool  *)
(* request is made only by a direct-match response of fewer than 5 items.  *)
(***************************************************************************)
PoolPending(ls) == Cardinality({i \in 1..Len(ls) : ls[i].stage = "pool"})

C10_EnoughDirectMatches ==
    [][/\ \A i \in 1..Len(lookups), items \in Directs :
             SuggestDirectOk(i, items) =>
                IF Len(items) >= 5
                THEN /\ PoolPending(lookups') = PoolPending(lookups)
                     /\ suggestionsShown'
                     /\ Len(suggestions') = (IF Len(items) > 8 THEN 8 ELSE Len(items))
                     /\ \A r \in 1..Len(suggestions') : suggestions'[r].id = items[r].id
                ELSE PoolPending(lookups') = PoolPending(lookups) + 1
       /\ PoolPending(lookups') > PoolPending(lookups) =>
             \E i \in 1..Len(lookups), items \in Directs :
                 Len(items) < 5 /\ SuggestDirectOk(i, items)]_vars

\* nine direct matches were answered and the first eight are shown, in the
\* order of the response (a record without file_name fourth)
C10_Witness ==
    /\ suggestionsShown
    /\ Len(suggestions) = 8
    /\ \A r \in 1..8 : suggestions[r].id = r
    /\ suggestions[4].title = NoName
    /\ lookups = <<>>

(***************************************************************************)
(* C11: a failed suggestion lookup leaves the list cleared and hidden,     *)
(* whichever request failed (direct or pool) and whichever way (the fetch  *)
(* rejected, or the status was not a success).                             *)
(***************************************************************************)
Failures == {"directRejected", "directStatus", "poolRejected", "poolStatus"}

\* outcomes of a lookup that end in renderSuggestions (line 243)
Renders == {"directOk", "poolStatus", "poolOk"}

HasPrefix(t, q) == Len(t) >= Len(q) /\ SubSeq(t, 1, Len(q)) = q

C12_LastResponseWins ==
    lastDone # <<>> =>
        (lastDone[1].outcome = "directOk" =>
            /\ suggestionsShown
            /\ suggestions # <<>>
            /\ \A r \in 1..Len(suggestions) : HasPrefix(suggestions[r].title, lastDone[1].q))

\* lookups for q1 and then for q2 were pending, q2 was answered first, and the
\* answer for q1 has just been rendered: the box holds q2 and the list holds
\* names that do not match it
C12_Witness ==
    /\ lastDone # <<>>
    /\ lastDone[1].outcome = "directOk"
    /\ lastDone[1].newer
    /\ lastDone[1].last
    /\ ~lastDone[1].dismissed
    /\ lookups = <<>>
    /\ ~debounceArmed
    /\ Trim(searchValue) # lastDone[1].q
    /\ suggestionsShown
    /\ \A r \in 1..Len(suggestions) : HasPrefix(suggestions[r].title, lastDone[1].q)
    /\ \E r \in 1..Len(suggestions) : ~HasPrefix(suggestions[r].title, Trim(searchValue))

(***************************************************************************)
(* C13: for all strings a and b of at most MaxLevLen letters,              *)
(* levenshtein(a, b) = levenshtein(b, a), levenshtein(a, a) = 0 and        *)
(* levenshtein("", b) is the length of b.                                  *)
(***************************************************************************)
C13_SymmetryIdentityEmpty ==
    levOut # <<>> =>
        /\ levOut[1].ab = levOut[1].ba
        /\ levOut[1].aa = 0
        /\ levOut[1].eb = Len(levB)

\* "Aat" against "t": two edits either way, none against itself, one from ""
C13_Witness ==
    /\ levA = <<"A", "a", "t">>
    /\ levB = <<"t">>
    /\ levOut # <<>>
    /\ levOut[1].ab = 2
    /\ levOut[1].ba = 2
    /\ levOut[1].aa = 0
    /\ levOut[1].eb = 1

(***************************************************************************)
(* C14: levenshtein(a, b) is the least number of single-character          *)
(* insertions, deletions and substitutions that turn a, case-folded, into  *)
(* b, case-folded; strings that differ only in letter case are at          *)
(* distance 0.                                                             *)
(***************************************************************************)
\* the case-folded form of a string of LevStrings
CaseFold(s) == [i \in 1..Len(s) |-> IF s[i] = "A" THEN "a" ELSE s[i]]

FoldedStrings == {CaseFold(s) : s \in LevStrings}
FoldedAlphabet == {"a", "t"}

\* the strings one edit away from s.  A shortest sequence of edits between two
\* strings can delete first and insert last, so it never needs a string longer
\* than both, nor a letter of neither.
OneEdit(s) ==
    {RemoveAt(s, i) : i \in 1..Len(s)}
    \cup {[s EXCEPT ![i] = c] : i \in 1..Len(s), c \in FoldedAlphabet}
    \cup (IF Len(s) < MaxLevLen
          THEN {SubSeq(s, 1, i) \o <<c>> \o SubSeq(s, i + 1, Len(s)) :
                    i \in 0..Len(s), c \in FoldedAlphabet}
          ELSE {})

OneEditTable == [s \in FoldedStrings |-> OneEdit(s)] @@ <<>>

\* the strings at most k edits away from s
RECURSIVE Within(_, _)
Within(s, k) ==
    IF k = 0 THEN {s}
    ELSE LET w == Within(s, k - 1) IN w \cup UNION {OneEditTable[x] : x \in w}

MinEdits(a, b) == CHOOSE k \in 0..MaxLevLen : b \in Within(a, k) /\ (k > 0 => b \notin Within(a, k - 1))

MinEditsTable == [p \in FoldedStrings \X FoldedStrings |-> MinEdits(p[1], p[2])] @@ <<>>

C14_MinimalEdits ==
    levOut # <<>> =>
        /\ levOut[1].ab = MinEditsTable[<<CaseFold(levA), CaseFold(levB)>>]
        /\ CaseFold(levA) = CaseFold(levB) => levOut[1].ab = 0

\* "Ata" and "atA" differ only in case
C14_Witness ==
    /\ levA = <<"A", "t", "a">>
    /\ levB = <<"a", "t", "A">>
    /\ levOut # <<>>
    /\ levOut[1].ab = 0

(***************************************************************************)
(* C15: Escape while the modal is visible closes the modal and leaves the  *)
(* sidebar, open or closed, and its timer as they are; Escape closes the   *)
(* sidebar only when the modal is hidden, so with both open it takes two   *)
(* presses to close both.                                                  *)
(***************************************************************************)
C15_EscapeModalFirst ==
    [][lastEvent' = "escape" =>
          IF ~modalHidden
          THEN /\ modalHidden'
               /\ modalBody' = ""
               /\ UNCHANGED sideVars
          ELSE /\ ~sidebarOpen'
               /\ UNCHANGED modalVars]_vars

\* Escape has just been pressed with the modal and the sidebar both open: the
\* modal is closed, the sidebar is open and its timer still pending
C15_Witness ==
    /\ lastEvent = "escape"
    /\ modalHidden
    /\ sidebarOpen
    /\ timerPending

C17_LoadingCleared ==
    /\ loading ~> ~loading
    /\ [][Len(inflight') < Len(inflight) => ~loading']_vars

\* the first page came back empty: loadNext returned early and the flag is clear
C17_Witness ==
    /\ noResults
    /\ finished
    /\ ~loading
    /\ ~loadingShown
    /\ inflight = <<>>

(***************************************************************************)
(* C18: every card of the feed comes from the response to a request that   *)
(* was issued after the latest reset, with the current query, year, type   *)
(* and sort: the response to a request issued before a reset appends no    *)
(* card, does not advance page and does not set finished.                  *)
(***************************************************************************)
C18_NoStaleResponseApplied ==
    \A k \in 1..Len(cards) :
        /\ ~cards[k].req.stale
        /\ cards[k].req.params =
              _parseParams(cards[k].req.params.page, currentQuery, currentYear,
                           currentType, currentSort)

(***************************************************************************)
(* C19: once the suggestion list has been hidden because the query became  *)
(* empty or a suggestion was selected, it stays hidden until a later input *)
(* event starts a new lookup: the answer to a lookup that was pending when *)
(* the list was hidden does not display suggestions.                       *)
(***************************************************************************)
C19_DismissedStaysHidden ==
    lastDone # <<>> =>
        (lastDone[1].outcome \in Renders /\ lastDone[1].dismissed => ~suggestionsShown)

(***************************************************************************)
(* C20: in every reachable state the sidebar is open exactly when the      *)
(* overlay is visible and exactly when body scrolling is locked, and a     *)
(* timer is pending only while the sidebar is open.                        *)
(***************************************************************************)
C20_SidebarConsistent ==
    /\ sidebarOpen = overlayVisible
    /\ overlayVisible = bodyLocked
    /\ timerPending => sidebarOpen
    /\ sidebarAutoCloseTimer = timerPending

\* the sidebar is open over the open modal after a pointerdown cancelled its
\* timer
C20_Witness ==
    /\ sidebarOpen
    /\ overlayVisible
    /\ bodyLocked
    /\ ~timerPending
    /\ ~modalHidden
    /\ lastEvent = "pointerdown"

====
